---- MODULE Spec2Model ----
(***************************************************************************)
(* A model of the FreeCell rules engine of gazed/purecell (src/logic.go):  *)
(* the logic struct (selected, gameSeed, deal, board, moves), the moves    *)
(* history (stack, undos), the global random register rseed, and the       *)
(* operations NewGame, Interact, Undo, AutoMoveCard and clearSelected.      *)
(*                                                                         *)
(* Every operation of the engine is a total function of the engine state,  *)
(* so each is written as an operator on a record                           *)
(*    l = [selected, gameSeed, deal, board, stack, undos]                  *)
(* and the actions apply these operators to the variables.                 *)
(***************************************************************************)
EXTENDS Integers, Sequences, FiniteSets, TLC

(***************************************************************************)
(* Program constants (src/logic.go, const block).                          *)
(***************************************************************************)
BLK == 0
RED == 1
CLB == 0
DMD == 1
HRT == 2
SPD == 3
ACES == 0
AC == 0
KC == 48
KD == 49
KH == 50
KS == 51
FC == 4
FD == 5
FH == 6
FS == 7
HIDDEN_CARD == 9999
NO_CARD == 999
EMPTY_PILE1 == 100
EMPTY_PILE16 == 115
MAX_BOARD_ID == 167
MAX_SEED == 999999
\* maxCascade of GetSelected and the loop-safety limit of getSequence.
maxCascade == 10
seqSafety == 13

Cards == AC..KS

\* a Go array with every element v, as an explicit table of values: f @@ <<>>
\* is f, and TLC holds it element by element.
array(indices, v) == [i \in indices |-> v] @@ <<>>

(***************************************************************************)
(* The sorted deck: card ID = 4*Rank + Suit, clubs and spades are black.   *)
(* InvalidCard is the zero Card with ID NO_CARD.                           *)
(***************************************************************************)
deck == [c \in Cards |->
           [ID |-> c, Suit |-> c % 4, Rank |-> c \div 4,
            Color |-> IF c % 4 \in {CLB, SPD} THEN BLK ELSE RED]]

InvalidCard == [ID |-> NO_CARD, Suit |-> 0, Rank |-> 0, Color |-> 0]

isCard(cardID) == cardID >= AC /\ cardID <= KS

getCard(cardID) == IF isCard(cardID) THEN deck[cardID] ELSE InvalidCard

(***************************************************************************)
(* The Sym field of the 52 cards of the deck, by card id, and the deals of  *)
(* the test table games: for each seed the symbols of the 52 cards in the   *)
(* order dealt.                                                            *)
(***************************************************************************)
cardSym ==
    << "AC", "AD", "AH", "AS", "2C", "2D", "2H", "2S", "3C", "3D", "3H", "3S", "4C",
       "4D", "4H", "4S", "5C", "5D", "5H", "5S", "6C", "6D", "6H", "6S", "7C", "7D",
       "7H", "7S", "8C", "8D", "8H", "8S", "9C", "9D", "9H", "9S", "TC", "TD", "TH",
       "TS", "JC", "JD", "JH", "JS", "QC", "QD", "QH", "QS", "KC", "KD", "KH", "KS" >>

Sym(cardID) == cardSym[cardID + 1]

games ==
    (1 :>
       << "JD", "2D", "9H", "JC", "5D", "7H", "7C", "5H", "KD", "KC", "9S", "5S", "AD",
          "QC", "KH", "3H", "2S", "KS", "9D", "QD", "JS", "AS", "AH", "3C", "4C", "5C",
          "TS", "QH", "4H", "AC", "4D", "7S", "3S", "TD", "4S", "TH", "8H", "2C", "JH",
          "7D", "6D", "8S", "8D", "QS", "6C", "3D", "8C", "TC", "6S", "9C", "2H", "6H" >>)
    @@ (2 :>
       << "QD", "QC", "KC", "3C", "4C", "2C", "KD", "5C", "4D", "JD", "JS", "6H", "QS",
          "6D", "2D", "9C", "TD", "JC", "8C", "6C", "8S", "4S", "5D", "QH", "7S", "9D",
          "KS", "7C", "6S", "4H", "AC", "8H", "AH", "9S", "TC", "2S", "3S", "TS", "9H",
          "2H", "3H", "AD", "7H", "3D", "5H", "8D", "KH", "7D", "AS", "5S", "TH", "JH" >>)
    @@ (11982 :>
       << "AH", "AS", "4H", "AC", "2D", "6S", "TS", "JS", "3D", "3H", "QS", "QC", "8S",
          "7H", "AD", "KS", "KD", "6H", "5S", "4D", "9H", "JH", "9S", "3C", "JC", "5D",
          "5C", "8C", "9D", "TD", "KH", "7C", "6C", "2C", "TH", "QH", "6D", "TC", "4S",
          "7S", "JD", "7D", "8H", "9C", "2H", "QD", "4C", "5H", "KC", "8D", "2S", "3S" >>)
    @@ (31999 :>
       << "JD", "JH", "AD", "QH", "KH", "6S", "6D", "JC", "AC", "TH", "AS", "8H", "9D",
          "2H", "8D", "6H", "AH", "7H", "7C", "5D", "7S", "6C", "QC", "JS", "9C", "3D",
          "5C", "4C", "2S", "8S", "3C", "7D", "5H", "8C", "4H", "TD", "TS", "3H", "4S",
          "KC", "TC", "4D", "9S", "2C", "KD", "9H", "KS", "5S", "QS", "2D", "QD", "3S" >>)
    @@ (999999 :>
       << "AH", "9S", "3D", "6C", "8D", "8H", "QS", "TS", "KD", "3C", "2D", "6D", "5H",
          "QD", "2S", "4D", "9D", "3S", "6H", "9H", "QC", "JH", "AS", "JS", "3H", "7H",
          "2H", "7S", "JC", "5D", "TD", "TH", "6S", "4S", "9C", "5C", "8C", "8S", "4C",
          "TC", "7C", "AC", "KH", "2C", "5S", "KS", "AD", "4H", "QH", "KC", "JD", "7D" >>)

(***************************************************************************)
(* The classic rand(): rseed = (rseed*214013 + 2531011) & (2^31 - 1),      *)
(* returning rseed >> 16.  Go computes it in 64-bit uint, where it cannot  *)
(* overflow for rseed < 2^31; here the product is formed from 16-bit       *)
(* halves (214013 = 3*65536 + 17405, 2531011 = 38*65536 + 40643) so that   *)
(* every intermediate value stays below 2^31.                              *)
(***************************************************************************)
\* rand() whose register keeps 16 bits: the mask is 2^16 - 1.
randStateNarrow(r) == ((r % 65536) * 17405 + 40643) % 65536

randState(r) ==
    LET a0 == r % 65536
        a1 == r \div 65536
        lo == a0 * 17405 + 40643
        hi == (a1 * 17405 + a0 * 3 + 38 + (lo \div 65536)) % 32768
    IN  hi * 65536 + (lo % 65536)

\* rand() that returns the register shifted by 15 bits.
randClassicShift15(r) == r \div 32768

randClassic(r) == r \div 65536

(***************************************************************************)
(* shuffle: 52 draws; j = rand % remainder, deal the card at j, move the   *)
(* last remaining card into its place.  Returns the dealt card ids (by     *)
(* deck position 0..51) and the final value of the global register.        *)
(***************************************************************************)
\* the draws without the removal of the dealt card from the deck.
RECURSIVE shuffleLoopKeepsCard(_, _)
shuffleLoopKeepsCard(upto, s) ==
    IF s.dealt = upto THEN s
    ELSE LET r2 == randState(s.rseed)
             remainder == 52 - s.dealt
             j == randClassic(r2) % remainder
         IN  shuffleLoopKeepsCard(upto,
                                  [dealt |-> s.dealt + 1,
                                   deck |-> s.deck,
                                   rseed |-> r2,
                                   deal |-> [s.deal EXCEPT ![s.dealt] = s.deck[j]]])

\* the draws from s.dealt up to (not including) draw number upto.
RECURSIVE shuffleLoop(_, _)
shuffleLoop(upto, s) ==
    IF s.dealt = upto THEN s
    ELSE LET r2 == randState(s.rseed)
             remainder == 52 - s.dealt
             j == randClassic(r2) % remainder
         IN  shuffleLoop(upto,
                         [dealt |-> s.dealt + 1,
                          deck |-> [s.deck EXCEPT ![j] = s.deck[remainder - 1]],
                          rseed |-> r2,
                          deal |-> [s.deal EXCEPT ![s.dealt] = s.deck[j]]])

\* the 52 draws are made in four blocks of 13.
shuffle(seed) ==
    LET s0 == [dealt |-> 0, deck |-> [cid \in Cards |-> cid] @@ <<>>,
               rseed |-> seed, deal |-> array(Cards, NO_CARD)]
        s1 == shuffleLoop(13, s0)
        s2 == shuffleLoop(26, s1)
        s3 == shuffleLoop(39, s2)
        s4 == shuffleLoop(52, s3)
    IN  [deal |-> s4.deal, rseed |-> s4.rseed]

(***************************************************************************)
(* Board queries.  l.board maps each card id to its board location.        *)
(*                                                                         *)
(* cardAt and lastInCascade scan the 52 cards in ascending id order and    *)
(* return the first match.  The engine record carries the result of these  *)
(* scans for its board: l.at[loc] is the first card stored at loc and      *)
(* l.ends[k] the first card that is last in cascade k (NO_CARD if none).   *)
(* setBoard is the only way a board is assigned, so both always describe   *)
(* l.board; they are a cache of the scans, not state of the program.       *)
(***************************************************************************)
Locations == 0..(MAX_BOARD_ID + 16)

\* the scan of cardAt, from card id cid upward.
RECURSIVE scanFrom(_, _, _)
scanFrom(b, boardPosition, cid) ==
    IF cid > KS THEN NO_CARD
    ELSE IF b[cid] = boardPosition THEN cid
    ELSE scanFrom(b, boardPosition, cid + 1)

\* all cardAt scans at once: visiting the cards in descending order leaves
\* the lowest id at each location.
RECURSIVE atFrom(_, _, _)
atFrom(b, first, s) ==
    IF s.cid < first THEN s.at
    ELSE atFrom(b, first,
                [cid |-> s.cid - 1,
                 at |-> IF b[s.cid] \in Locations
                        THEN [s.at EXCEPT ![b[s.cid]] = s.cid]
                        ELSE s.at])

\* the scan is made one block of 13 cards at a time.
atOf(b) ==
    LET a3 == atFrom(b, 39, [cid |-> KS, at |-> array(Locations, NO_CARD)])
        a2 == atFrom(b, 26, [cid |-> 38, at |-> a3])
        a1 == atFrom(b, 13, [cid |-> 25, at |-> a2])
    IN  atFrom(b, AC, [cid |-> 12, at |-> a1])

\* all lastInCascade scans at once, in the same way.
RECURSIVE endsFrom(_, _, _, _)
endsFrom(b, at, first, s) ==
    IF s.cid < first THEN s.ends
    ELSE endsFrom(b, at, first,
                  [cid |-> s.cid - 1,
                   ends |-> IF /\ b[s.cid] >= 8
                               /\ b[s.cid] <= MAX_BOARD_ID
                               /\ at[b[s.cid] + 8] = NO_CARD
                            THEN [s.ends EXCEPT ![b[s.cid] % 8] = s.cid]
                            ELSE s.ends])

endsOf(b, at) ==
    LET e3 == endsFrom(b, at, 39, [cid |-> KS, ends |-> array(0..7, NO_CARD)])
        e2 == endsFrom(b, at, 26, [cid |-> 38, ends |-> e3])
        e1 == endsFrom(b, at, 13, [cid |-> 25, ends |-> e2])
    IN  endsFrom(b, at, AC, [cid |-> 12, ends |-> e1])

setBoard(l, b) ==
    LET at == atOf(b)
    IN  [l EXCEPT !.board = b, !.at = at, !.ends = endsOf(b, at)]

\* first card id (ascending) stored at the location, NO_CARD if none.
cardAt(l, boardPosition) ==
    IF boardPosition \in Locations THEN l.at[boardPosition]
    ELSE scanFrom(l.board, boardPosition, AC)

\* isCascade without the upper limit: hidden locations count as cascade cells.
isCascadeNoLimit(boardID) == boardID >= 8
isCascade(boardID) == boardID >= 8 /\ boardID <= MAX_BOARD_ID
isFoundation(boardID) == boardID >= 4 /\ boardID <= 7
isFreecell(boardID) == boardID >= 0 /\ boardID <= 3

isLastInCascade(l, cardID) ==
    LET boardLocation == l.board[cardID]
    IN  IF boardLocation >= 8 /\ boardLocation <= MAX_BOARD_ID
        THEN cardAt(l, boardLocation + 8) = NO_CARD
        ELSE FALSE

\* first card id (ascending) that is last in the cascade, as a Card.
lastInCascade(l, cascadeID) ==
    IF l.ends[cascadeID] = NO_CARD THEN InvalidCard ELSE deck[l.ends[cascadeID]]

\* emptyPile that takes every pile for empty.
emptyPileAlways(l, pileID) == pileID >= 0 /\ pileID <= 15

\* no card is stored at the pile's own location.
emptyPile(l, pileID) ==
    IF pileID >= 0 /\ pileID <= 15
    THEN cardAt(l, pileID) = NO_CARD
    ELSE FALSE

countEmptyCells(l, piles) == Cardinality({pileID \in piles : emptyPile(l, pileID)})
emptyFreeCells(l) == countEmptyCells(l, 0..3)
emptyCascades(l) == countEmptyCells(l, 8..15)

\* b.Rank == a.Rank - 1 is unsigned: for a.Rank = 0 the right side wraps to
\* 2^64 - 1, which no rank equals; a.Rank - 1 = -1 gives the same answer.
nextInSequence(a, b) == (b.Rank = a.Rank - 1) /\ b.Color # a.Color

\* isNextInFoundation that does not look at the suit of the card.
isNextInFoundationAnySuit(suit, a, b) ==
    IF suit > SPD THEN FALSE
    ELSE LET onEmpty == a.ID = NO_CARD /\ b.Rank = ACES
             onCard == a.ID # NO_CARD /\ b.Rank = a.Rank + 1
         IN  onEmpty \/ onCard

isNextInFoundation(suit, a, b) ==
    IF suit > SPD THEN FALSE
    ELSE LET onEmpty == a.ID = NO_CARD /\ b.Suit = suit /\ b.Rank = ACES
             onCard == a.ID # NO_CARD /\ b.Suit = suit /\ b.Rank = a.Rank + 1
         IN  onEmpty \/ onCard

clearSelected(l) == [l EXCEPT !.selected = NO_CARD]
isSelectionActive(l) == isCard(l.selected)

\* the size with the target never counted as a consumed empty cascade.
movableStackSizeAnyTarget(l, isEmptyCascadeUsed) ==
    IF emptyCascades(l) <= 0 THEN emptyFreeCells(l) + 1
    ELSE 2 * (emptyFreeCells(l) + 1 + (emptyCascades(l) - 1))

\* the size with every empty cascade counted as an extra one.
movableStackSizeExtra(l, isEmptyCascadeUsed) ==
    LET e0 == emptyCascades(l)
        e1 == IF isEmptyCascadeUsed THEN e0 - 1 ELSE e0
    IN  IF e0 <= 0 THEN emptyFreeCells(l) + 1
        ELSE IF e1 > 0 THEN 2 * (emptyFreeCells(l) + 1 + e1)
        ELSE emptyFreeCells(l) + 1

movableStackSize(l, isEmptyCascadeUsed) ==
    LET e0 == emptyCascades(l)
        e1 == IF isEmptyCascadeUsed THEN e0 - 1 ELSE e0
    IN  IF e0 <= 0 THEN emptyFreeCells(l) + 1
        ELSE IF e1 > 0 THEN 2 * (emptyFreeCells(l) + 1 + (e1 - 1))
        ELSE emptyFreeCells(l) + 1

canMoveToCascade(l, cardID) ==
    \E cascadeID \in 0..7 :
        LET lastCardInCascade == lastInCascade(l, cascadeID)
        IN  /\ lastCardInCascade.ID # NO_CARD
            /\ nextInSequence(getCard(lastCardInCascade.ID), getCard(cardID))

(***************************************************************************)
(* GetSelected: the selected card and the run stacked on it, at most       *)
(* maxCascade cards.                                                       *)
(***************************************************************************)
RECURSIVE GetSelectedLoop(_, _, _, _)
GetSelectedLoop(l, cardID, nextCardID, v) ==
    IF /\ nextCardID # NO_CARD
       /\ nextInSequence(getCard(cardID), getCard(nextCardID))
       /\ Len(v) < maxCascade
    THEN GetSelectedLoop(l, nextCardID, cardAt(l, l.board[nextCardID] + 8),
                         Append(v, nextCardID))
    ELSE v

GetSelected(l) ==
    IF ~isSelectionActive(l) THEN <<>>
    ELSE LET boardPosition == l.board[l.selected]
         IN  IF isCascade(boardPosition)
             THEN GetSelectedLoop(l, l.selected, cardAt(l, boardPosition + 8),
                                  <<l.selected>>)
             ELSE <<l.selected>>

isSelected(l, cardID) ==
    LET cards == GetSelected(l)
    IN  \E i \in 1..Len(cards) : cards[i] = cardID

(***************************************************************************)
(* getSequence: the run from cardID to the end of its cascade, empty if it *)
(* does not reach the end or exceeds the movable stack size.               *)
(***************************************************************************)
RECURSIVE getSequenceLoop(_, _, _, _)
getSequenceLoop(l, cardID, nextCardID, v) ==
    IF /\ nextCardID # NO_CARD
       /\ nextInSequence(getCard(cardID), getCard(nextCardID))
       /\ Len(v) < seqSafety
    THEN getSequenceLoop(l, nextCardID, cardAt(l, l.board[nextCardID] + 8),
                         Append(v, nextCardID))
    ELSE v

\* getSequence without the check against the movable stack size.
getSequenceAnySize(l, cardID) ==
    LET boardPosition == l.board[cardID]
    IN  IF isCascade(boardPosition)
        THEN LET v == getSequenceLoop(l, cardID, cardAt(l, boardPosition + 8),
                                      <<cardID>>)
                 lastCard == v[Len(v)]
             IN  IF cardAt(l, l.board[lastCard] + 8) # NO_CARD THEN <<>>
                 ELSE v
        ELSE IF isFreecell(boardPosition) THEN <<cardID>>
        ELSE <<>>

getSequence(l, cardID) ==
    LET boardPosition == l.board[cardID]
    IN  IF isCascade(boardPosition)
        THEN LET v == getSequenceLoop(l, cardID, cardAt(l, boardPosition + 8),
                                      <<cardID>>)
                 lastCard == v[Len(v)]
             IN  IF cardAt(l, l.board[lastCard] + 8) # NO_CARD THEN <<>>
                 ELSE IF Len(v) > movableStackSize(l, ~canMoveToCascade(l, v[1]))
                      THEN <<>>
                      ELSE v
        ELSE IF isFreecell(boardPosition) THEN <<cardID>>
        ELSE <<>>

(***************************************************************************)
(* Move legality.                                                          *)
(***************************************************************************)
canPlaceCard(l, pick) ==
    LET selects == GetSelected(l)
    IN  IF pick >= EMPTY_PILE1 /\ pick <= EMPTY_PILE16
        THEN LET s == getCard(selects[1])
                 pileID == pick - EMPTY_PILE1
             IN  IF isFreecell(pileID) /\ Len(selects) = 1 THEN emptyPile(l, pileID)
                 ELSE IF isFoundation(pileID) /\ Len(selects) = 1
                      THEN (s.Suit = pileID - 4) /\ s.Rank = ACES
                 ELSE IF pileID >= 8 /\ pileID <= 15 THEN emptyPile(l, pileID)
                 ELSE FALSE
        ELSE IF isCard(pick)
        THEN LET p == getCard(pick)
                 s == getCard(selects[1])
                 boardPick == l.board[pick]
             IN  IF isFoundation(boardPick) /\ Len(selects) = 1
                 THEN isNextInFoundation(boardPick - 4, p, s)
                 ELSE IF isCascade(boardPick)
                      THEN IF isLastInCascade(l, pick) THEN nextInSequence(p, s)
                           ELSE FALSE
                 ELSE FALSE
        ELSE FALSE

\* canSelectCard that accepts every card in a freecell, on top of a
\* foundation or last in its cascade.
canSelectCardExposed(l, pick) ==
    /\ isCard(pick)
    /\ \/ isFreecell(l.board[pick])
       \/ isFoundation(l.board[pick])
       \/ isLastInCascade(l, pick)

\* canSelectCard without the foundation as a destination.
canSelectCardNoFoundation(l, pick) ==
    IF ~isCard(pick) THEN FALSE
    ELSE LET boardPick == l.board[pick]
         IN  IF isFoundation(boardPick) THEN FALSE
             ELSE IF isCascade(boardPick) \/ isFreecell(boardPick)
             THEN LET seq == getSequence(l, pick)
                  IN  IF Len(seq) <= 0 THEN FALSE
                      ELSE IF Len(seq) = 1 /\ emptyFreeCells(l) > 0 THEN TRUE
                      ELSE IF emptyCascades(l) > 0 THEN TRUE
                      ELSE canMoveToCascade(l, seq[1])
             ELSE FALSE

\* canSelectCard that asks for a movable sequence and not for a destination.
canSelectCardAnywhere(l, pick) ==
    IF ~isCard(pick) THEN FALSE
    ELSE LET boardPick == l.board[pick]
         IN  IF isFoundation(boardPick) THEN FALSE
             ELSE IF isCascade(boardPick) \/ isFreecell(boardPick)
             THEN Len(getSequence(l, pick)) > 0
             ELSE FALSE

canSelectCard(l, pick) ==
    IF ~isCard(pick) THEN FALSE
    ELSE LET boardPick == l.board[pick]
         IN  IF isFoundation(boardPick) THEN FALSE
             ELSE IF isCascade(boardPick) \/ isFreecell(boardPick)
             THEN LET seq == getSequence(l, pick)
                  IN  IF Len(seq) <= 0 THEN FALSE
                      ELSE LET c == getCard(seq[1])
                               foundationPileID == c.Suit + 4
                               topCard == getCard(cardAt(l, foundationPileID))
                           IN  IF Len(seq) = 1 /\ emptyFreeCells(l) > 0 THEN TRUE
                               ELSE IF /\ Len(seq) = 1
                                       /\ emptyPile(l, foundationPileID)
                                       /\ c.Rank = ACES
                                    THEN TRUE
                               ELSE IF /\ Len(seq) = 1
                                       /\ isNextInFoundation(c.Suit, topCard, c)
                                    THEN TRUE
                               ELSE IF emptyCascades(l) > 0 THEN TRUE
                               ELSE canMoveToCascade(l, seq[1])
             ELSE FALSE

canInteract(l, pick) ==
    IF isSelectionActive(l) THEN canPlaceCard(l, pick) ELSE canSelectCard(l, pick)

(***************************************************************************)
(* The moves history.                                                      *)
(***************************************************************************)
\* moves.record: push a copy of the board.
record(l) == [l EXCEPT !.stack = Append(@, l.board)]

\* undo without the penalty: the snapshot is popped, undos is not counted.
undoUncounted(l) ==
    LET popped == IF Len(l.stack) > 1
                  THEN [l EXCEPT !.stack = SubSeq(@, 1, Len(@) - 1)]
                  ELSE l
    IN  setBoard(popped, popped.stack[Len(popped.stack)])

\* undo whose result is not assigned to the board.
undoKeepBoard(l) ==
    IF Len(l.stack) > 1
    THEN [l EXCEPT !.stack = SubSeq(@, 1, Len(@) - 1), !.undos = @ + 1]
    ELSE l

\* moves.undo followed by the assignment to l.board in logic.Undo.
undo(l) ==
    LET popped == IF Len(l.stack) > 1
                  THEN [l EXCEPT !.stack = SubSeq(@, 1, Len(@) - 1),
                                 !.undos = @ + 1]
                  ELSE l
    IN  setBoard(popped, popped.stack[Len(popped.stack)])

\* moves.reset
reset(l) == [l EXCEPT !.stack = <<>>, !.undos = 0]

\* count with each undo counted once, and counted three times.
countSinglePenalty(l) == Len(l.stack) + l.undos
countTriplePenalty(l) == Len(l.stack) + l.undos * 3

\* count of the snapshots alone.
countNoUndos(l) == Len(l.stack)

\* moves.count
count(l) == Len(l.stack) + l.undos * 2

\* PreviousBoard that returns the newest snapshot.
PreviousBoardNewest(l) == l.stack[Len(l.stack)]

\* the snapshot under the newest one, or the only one.
PreviousBoard(l) ==
    IF Len(l.stack) > 1 THEN l.stack[Len(l.stack) - 1]
    ELSE l.stack[Len(l.stack)]

(***************************************************************************)
(* IsGameSolvable: a binary search of the list of unsolvable games.        *)
(***************************************************************************)
\* the list with two games out of order.
UnsolvableGamesOutOfOrder ==
    << 11982, 186216, 146692, 455889, 495505, 512118, 517776, 781948 >>

UnsolvableGames ==
    << 11982, 146692, 186216, 455889, 495505, 512118, 517776, 781948 >>

\* slices.BinarySearch on the elements i+1 .. j of x (i and j as in Go, from
\* 0): the smallest index at which target is or would be inserted, and
\* whether target is there.
RECURSIVE BinarySearchLoop(_, _, _, _)
BinarySearchLoop(x, target, i, j) ==
    IF i < j
    THEN LET h == (i + j) \div 2
         IN  IF x[h + 1] < target
             THEN BinarySearchLoop(x, target, h + 1, j)
             ELSE BinarySearchLoop(x, target, i, h)
    ELSE [pos |-> i, found |-> i < Len(x) /\ x[i + 1] = target]

BinarySearch(x, target) == BinarySearchLoop(x, target, 0, Len(x))

IsGameSolvable(l, seed) == ~BinarySearch(UnsolvableGames, seed).found

\* IsGameWon that leaves the king of hearts out.
IsGameWonThreeKings(l) ==
    /\ l.board[KC] = FC
    /\ l.board[KD] = FD
    /\ l.board[KS] = FS

IsGameWon(l) ==
    /\ l.board[KC] = FC
    /\ l.board[KD] = FD
    /\ l.board[KH] = FH
    /\ l.board[KS] = FS

\* MoveCount that counts the deal's own snapshot.
MoveCountWithDeal(l) == count(l)

MoveCount(l) == IF count(l) > 0 THEN count(l) - 1 ELSE 0

\* Undo that leaves the selection alone.
UndoKeepSelected(l) == undo(l)

Undo(l) == undo(clearSelected(l))

(***************************************************************************)
(* NewGame: deal shuffle(seed) onto locations 8..59, one snapshot.         *)
(***************************************************************************)
\* board[deal[cid]] = cid + 8 for the deck positions s.cid .. last.
RECURSIVE dealLoop(_, _, _)
dealLoop(deal, last, s) ==
    IF s.cid > last THEN s.board
    ELSE dealLoop(deal, last,
                  [cid |-> s.cid + 1,
                   board |-> [s.board EXCEPT ![deal[s.cid]] = s.cid + 8]])

\* a deal that stops after deck position 38.
dealBoardShort(deal, b) ==
    LET b1 == dealLoop(deal, 12, [cid |-> AC, board |-> b])
        b2 == dealLoop(deal, 25, [cid |-> 13, board |-> b1])
    IN  dealLoop(deal, 38, [cid |-> 26, board |-> b2])

dealBoard(deal, b) ==
    LET b1 == dealLoop(deal, 12, [cid |-> AC, board |-> b])
        b2 == dealLoop(deal, 25, [cid |-> 13, board |-> b1])
        b3 == dealLoop(deal, 38, [cid |-> 26, board |-> b2])
    IN  dealLoop(deal, KS, [cid |-> 39, board |-> b3])

NewGame(l, seed) ==
    LET sh == shuffle(seed)
        l1 == clearSelected([l EXCEPT !.gameSeed = seed, !.stack = <<>>,
                                      !.undos = 0])
        l2 == setBoard([l1 EXCEPT !.deal = sh.deal],
                       dealBoard(sh.deal, l.board))
    IN  [st |-> record(reset(l2)), rseed |-> sh.rseed]

(***************************************************************************)
(* Interact.  The result is the new engine state and the returned flag.    *)
(***************************************************************************)
\* the placement whose loop stops one card early: the last card of a
\* sequence of two or more stays where it was.
RECURSIVE placeSequenceShort(_, _, _)
placeSequenceShort(seq, first, s) ==
    IF s.i > Len(seq) \/ (s.i > 1 /\ s.i = Len(seq)) THEN s.board
    ELSE LET to == IF s.i = 1 THEN first ELSE s.board[seq[s.i - 1]] + 8
         IN  placeSequenceShort(seq, first,
                                [i |-> s.i + 1,
                                 board |-> [s.board EXCEPT ![seq[s.i]] = to]])

\* board[seq[1]] = first; board[seq[i]] = board[seq[i-1]] + 8 for the rest.
RECURSIVE placeSequence(_, _, _)
placeSequence(seq, first, s) ==
    IF s.i > Len(seq) THEN s.board
    ELSE LET to == IF s.i = 1 THEN first ELSE s.board[seq[s.i - 1]] + 8
         IN  placeSequence(seq, first,
                           [i |-> s.i + 1, board |-> [s.board EXCEPT ![seq[s.i]] = to]])

\* a move that records the board before changing it.
movedStale(l, b) == [st |-> setBoard(record(l), b), ret |-> TRUE]

moved(l, b) == [st |-> record(setBoard(l, b)), ret |-> TRUE]
\* a refusal that records a snapshot all the same.
notMovedRecorded(l) == [st |-> record(l), ret |-> FALSE]

notMoved(l) == [st |-> l, ret |-> FALSE]

\* place that stores the pick of an empty freecell as the card's location.
placeAtPick(l, pick) ==
    LET s == getCard(l.selected)
        seq == GetSelected(l)
        c == clearSelected(l)
    IN  IF pick >= EMPTY_PILE1 /\ pick <= EMPTY_PILE16
        THEN LET pileID == pick - EMPTY_PILE1
             IN  IF isFreecell(pileID) /\ Len(seq) = 1
                 THEN IF emptyPile(c, pileID)
                      THEN moved(c, [c.board EXCEPT ![s.ID] = pick])
                      ELSE notMoved(c)
                 ELSE IF isFoundation(pileID) /\ Len(seq) = 1
                 THEN IF s.Suit = pileID - 4 /\ emptyPile(c, pileID) /\ s.Rank = ACES
                      THEN moved(c, [c.board EXCEPT ![s.ID] = pileID])
                      ELSE notMoved(c)
                 ELSE IF pileID >= 8 /\ pileID <= 15
                 THEN IF emptyPile(c, pileID)
                      THEN IF Len(seq) > movableStackSize(c, TRUE)
                           THEN notMoved(c)
                           ELSE moved(c, placeSequence(seq, pileID, [i |-> 1, board |-> c.board]))
                      ELSE notMoved(c)
                 ELSE notMoved(c)
        ELSE IF isCard(pick)
        THEN LET p == getCard(pick)
                 boardPick == c.board[p.ID]
             IN  IF isFoundation(boardPick) /\ Len(seq) = 1
                 THEN IF s.Rank = p.Rank + 1
                      THEN moved(c, [c.board EXCEPT ![p.ID] = boardPick + HIDDEN_CARD,
                                                    ![s.ID] = boardPick])
                      ELSE notMoved(c)
                 ELSE IF isCascade(boardPick)
                 THEN IF nextInSequence(p, s)
                      THEN moved(c, placeSequence(seq, boardPick + 8, [i |-> 1, board |-> c.board]))
                      ELSE notMoved(c)
                 ELSE notMoved(c)
        ELSE notMoved(c)

\* the placement part of Interact: selection active and canInteract(pick).
place(l, pick) ==
    LET s == getCard(l.selected)
        seq == GetSelected(l)
        c == clearSelected(l)
    IN  IF pick >= EMPTY_PILE1 /\ pick <= EMPTY_PILE16
        THEN LET pileID == pick - EMPTY_PILE1
             IN  IF isFreecell(pileID) /\ Len(seq) = 1
                 THEN IF emptyPile(c, pileID)
                      THEN moved(c, [c.board EXCEPT ![s.ID] = pileID])
                      ELSE notMoved(c)
                 ELSE IF isFoundation(pileID) /\ Len(seq) = 1
                 THEN IF s.Suit = pileID - 4 /\ emptyPile(c, pileID) /\ s.Rank = ACES
                      THEN moved(c, [c.board EXCEPT ![s.ID] = pileID])
                      ELSE notMoved(c)
                 ELSE IF pileID >= 8 /\ pileID <= 15
                 THEN IF emptyPile(c, pileID)
                      THEN IF Len(seq) > movableStackSize(c, TRUE)
                           THEN notMoved(c)
                           ELSE moved(c, placeSequence(seq, pileID, [i |-> 1, board |-> c.board]))
                      ELSE notMoved(c)
                 ELSE notMoved(c)
        ELSE IF isCard(pick)
        THEN LET p == getCard(pick)
                 boardPick == c.board[p.ID]
             IN  IF isFoundation(boardPick) /\ Len(seq) = 1
                 THEN IF s.Rank = p.Rank + 1
                      THEN moved(c, [c.board EXCEPT ![p.ID] = boardPick + HIDDEN_CARD,
                                                    ![s.ID] = boardPick])
                      ELSE notMoved(c)
                 ELSE IF isCascade(boardPick)
                 THEN IF nextInSequence(p, s)
                      THEN moved(c, placeSequence(seq, boardPick + 8, [i |-> 1, board |-> c.board]))
                      ELSE notMoved(c)
                 ELSE notMoved(c)
        ELSE notMoved(c)

\* Interact that selects the rejected pick even if it was the selection.
InteractReselects(l, pick) ==
    IF ~canInteract(l, pick)
    THEN LET c == clearSelected(l)
         IN  IF isCard(pick) /\ canInteract(c, pick)
             THEN notMoved([c EXCEPT !.selected = pick])
             ELSE notMoved(c)
    ELSE IF isSelectionActive(l) THEN place(l, pick)
    ELSE IF isCard(pick) THEN notMoved([l EXCEPT !.selected = pick])
    ELSE notMoved(l)

Interact(l, pick) ==
    IF ~canInteract(l, pick)
    THEN LET c == clearSelected(l)
         IN  IF pick # l.selected /\ isCard(pick) /\ canInteract(c, pick)
             THEN notMoved([c EXCEPT !.selected = pick])
             ELSE notMoved(c)
    ELSE IF isSelectionActive(l) THEN place(l, pick)
    ELSE IF isCard(pick) THEN notMoved([l EXCEPT !.selected = pick])
    ELSE notMoved(l)

(***************************************************************************)
(* AutoMoveCard: promote the first eligible candidate to its foundation.   *)
(***************************************************************************)
candidates(l) ==
    << getCard(cardAt(l, 0)), getCard(cardAt(l, 1)),
       getCard(cardAt(l, 2)), getCard(cardAt(l, 3)),
       lastInCascade(l, 0), lastInCascade(l, 1), lastInCascade(l, 2),
       lastInCascade(l, 3), lastInCascade(l, 4), lastInCascade(l, 5),
       lastInCascade(l, 6), lastInCascade(l, 7) >>

minRank(l) ==
    LET tops == [f \in FC..FS |-> getCard(cardAt(l, f))]
    IN  IF \A f \in FC..FS : tops[f].ID # NO_CARD
        THEN CHOOSE r \in {tops[f].Rank : f \in FC..FS} :
                \A f \in FC..FS : r <= tops[f].Rank
        ELSE -1

\* promote without hiding the foundation's top card.
promoteOver(l, c) ==
    LET l1 == record(setBoard(l, [l.board EXCEPT ![c.ID] = c.Suit + 4]))
    IN  IF isSelected(l1, c.ID) THEN clearSelected(l1) ELSE l1

\* promote that records the board and leaves the candidate where it is.
promoteInPlace(l, c) ==
    LET l1 == record(l)
    IN  IF isSelected(l1, c.ID) THEN clearSelected(l1) ELSE l1

\* one candidate: the foundation's top card is hidden, the candidate becomes
\* the top, the board is recorded, and the selection is cleared if the
\* candidate is (still) reported by GetSelected.
promote(l, c) ==
    LET top == getCard(cardAt(l, c.Suit + 4))
        b1 == IF top.ID # NO_CARD
              THEN [l.board EXCEPT ![top.ID] = @ + HIDDEN_CARD]
              ELSE l.board
        l1 == record(setBoard(l, [b1 EXCEPT ![c.ID] = c.Suit + 4]))
    IN  IF isSelected(l1, c.ID) THEN clearSelected(l1) ELSE l1

\* eligible without the test of the rank against minRank.
eligibleAnyRank(l, c) ==
    /\ c.ID # NO_CARD
    /\ isNextInFoundation(c.Suit, getCard(cardAt(l, c.Suit + 4)), c)

eligible(l, c) ==
    /\ c.ID # NO_CARD
    /\ c.Rank = minRank(l) + 1 \/ c.Rank = minRank(l) + 2
    /\ isNextInFoundation(c.Suit, getCard(cardAt(l, c.Suit + 4)), c)

\* AutoMoveCard without the wait for a first move.
AutoMoveCardAtOnce(l) ==
    LET cs == candidates(l)
        hits == {i \in 1..Len(cs) : eligible(l, cs[i])}
    IN  IF hits = {} THEN notMoved(l)
        ELSE LET first == CHOOSE i \in hits : \A k \in hits : i <= k
             IN  [st |-> promote(l, cs[first]), ret |-> TRUE]

\* AutoMoveCard that goes on to a second promotion in the same call.
AutoMoveCardChained(l) ==
    IF count(l) < 2 THEN notMoved(l)
    ELSE LET cs == candidates(l)
             hits == {i \in 1..Len(cs) : eligible(l, cs[i])}
         IN  IF hits = {} THEN notMoved(l)
             ELSE LET first == CHOOSE i \in hits : \A k \in hits : i <= k
                      l1 == promote(l, cs[first])
                      cs2 == candidates(l1)
                      hits2 == {i \in 1..Len(cs2) : eligible(l1, cs2[i])}
                  IN  IF hits2 = {} THEN [st |-> l1, ret |-> TRUE]
                      ELSE LET next == CHOOSE i \in hits2 : \A k \in hits2 : i <= k
                           IN  [st |-> promote(l1, cs2[next]), ret |-> TRUE]

\* AutoMoveCard that takes the last eligible candidate of the scan.
AutoMoveCardLastHit(l) ==
    IF count(l) < 2 THEN notMoved(l)
    ELSE LET cs == candidates(l)
             hits == {i \in 1..Len(cs) : eligible(l, cs[i])}
         IN  IF hits = {} THEN notMoved(l)
             ELSE LET last == CHOOSE i \in hits : \A k \in hits : i >= k
                  IN  [st |-> promote(l, cs[last]), ret |-> TRUE]

AutoMoveCard(l) ==
    IF count(l) < 2 THEN notMoved(l)
    ELSE LET cs == candidates(l)
             hits == {i \in 1..Len(cs) : eligible(l, cs[i])}
         IN  IF hits = {} THEN notMoved(l)
             ELSE LET first == CHOOSE i \in hits : \A k \in hits : i <= k
                  IN  [st |-> promote(l, cs[first]), ret |-> TRUE]

\* the cards on the foundations of board b, visible or hidden.
foundationCards(b) ==
    {c \in AC..KS : b[c] \in FC..FS \/ b[c] \in (FC + HIDDEN_CARD)..(FS + HIDDEN_CARD)}

\* the outro of the move animation: AutoMoveCard is called, and while it
\* returns true the next animation's outro calls it again.  s.n counts the
\* calls that returned true, s.up tells that each of them put one more card on
\* the foundations; the chain is cut after more promotions than the deck has
\* cards.
RECURSIVE outroChain(_)
outroChain(s) ==
    LET a == AutoMoveCard(s.st)
    IN  IF ~a.ret \/ s.n > KS + 1 THEN s
        ELSE outroChain([st |-> a.st, n |-> s.n + 1,
                         up |-> s.up /\ Cardinality(foundationCards(a.st.board))
                                          = Cardinality(foundationCards(s.st.board)) + 1])

(***************************************************************************)
(* The state machine.                                                      *)
(***************************************************************************)
VARIABLES selected, gameSeed, deal, board, stack, undos, rseed, at, ends,
          ahead, pops

\* selected .. undos are the fields of logic and moves, rseed is the global
\* random register; at and ends are the scans of the board (see setBoard).
\* ahead counts the snapshots pushed and not yet undone since the starting
\* position or the last NewGame (the bound of the model is on it) and pops
\* the Undo calls that removed a snapshot since the last NewGame.
vars == <<selected, gameSeed, deal, board, stack, undos, rseed, at, ends,
          ahead, pops>>

\* bounds of the model
MaxMoves == 1
MaxUndos == 1

\* the seeds NewGame is called with, and the picks Interact is called with:
\* every card, every empty-pile id, and some values that are neither.
Seeds == {1, 51, MAX_SEED}
Picks == (AC..KS) \cup (EMPTY_PILE1..EMPTY_PILE16) \cup {52, 99, 116, NO_CARD}

L == [selected |-> selected, gameSeed |-> gameSeed, deal |-> deal,
      board |-> board, stack |-> stack, undos |-> undos, at |-> at,
      ends |-> ends]

\* &logic{}: every field zero, no moves yet.
Constructed ==
    setBoard([selected |-> 0, gameSeed |-> 0, deal |-> array(Cards, 0),
              board |-> array(Cards, 0), stack |-> <<>>, undos |-> 0,
              at |-> <<>>, ends |-> <<>>],
             array(Cards, 0))

becomes(l) ==
    /\ selected' = l.selected
    /\ gameSeed' = l.gameSeed
    /\ deal' = l.deal
    /\ board' = l.board
    /\ stack' = l.stack
    /\ undos' = l.undos
    /\ at' = l.at
    /\ ends' = l.ends

(***************************************************************************)
(* Two recorded games, as the picks passed to Interact: game 51 (65 moves) *)
(* and game 164 (24 moves).  The model starts from positions of these      *)
(* games, each reached by replaying the record through Interact.           *)
(***************************************************************************)
Game51 ==
    << 5, 100, 14, 101, 15, 102, 20, 25, 27, 29, 21, 27, 11, 13, 5, 11,
       12, 100, 4, 103, 16, 21, 14, 16, 11, 14, 24, 30, 3, 5, 30, 35,
       18, 20, 22, 24, 12, 18, 13, 100, 8, 101, 15, 17, 46, 102, 41, 47,
       36, 41, 13, 113, 8, 13, 6, 8, 47, 50, 34, 36, 17, 23, 0, 6,
       9, 12, 46, 51, 35, 38, 23, 26, 40, 46, 38, 40, 16, 22, 29, 32,
       4, 9, 44, 100, 43, 101, 39, 102, 32, 37, 28, 34, 26, 28, 39, 42,
       25, 114, 10, 15, 1, 4, 44, 49, 42, 44, 19, 21, 13, 19, 25, 31,
       37, 113, 43, 45, 37, 43, 43, 113, 6, 100, 27, 114, 43, 45, 27, 29,
       5, 8 >>

Game164 ==
    << 23, 25, 7, 10, 18, 23, 1, 105, 19, 22, 3, 107, 16, 21, 11, 13,
       15, 18, 10, 15, 2, 7, 22, 24, 13, 16, 20, 100, 36, 41, 6, 11,
       43, 46, 37, 43, 34, 36, 12, 17, 25, 31, 31, 34, 20, 26, 17, 20 >>

\* the engine after Interact(picks[i]), ..., Interact(picks[n]) from l; play
\* stops when the game is won.  The picks are replayed half by half.
RECURSIVE Replay(_, _, _, _)
Replay(l, picks, i, n) ==
    IF i > n \/ IsGameWon(l) THEN l
    ELSE IF i = n THEN Interact(l, picks[i]).st
    ELSE LET mid == (i + n) \div 2
         IN  Replay(Replay(l, picks, i, mid), picks, mid + 1, n)

\* game 51 after 59 moves and after 64 moves of its record; game 164 after
\* its record and one AutoMoveCard (the ace of hearts goes up).
After118 == Replay(NewGame(Constructed, 51).st, Game51, 1, 118)
After128 == Replay(NewGame(Constructed, 51).st, Game51, 1, 128)
After164 == AutoMoveCard(Replay(NewGame(Constructed, 164).st, Game164, 1, 48)).st

\* the starting positions, each with the random register its NewGame left.
Starts ==
    { [st |-> After118, rseed |-> NewGame(Constructed, 51).rseed],
      [st |-> After128, rseed |-> NewGame(Constructed, 51).rseed],
      [st |-> After164, rseed |-> NewGame(Constructed, 164).rseed] }

Init ==
    \E s \in Starts :
        /\ selected = s.st.selected
        /\ gameSeed = s.st.gameSeed
        /\ deal = s.st.deal
        /\ board = s.st.board
        /\ stack = s.st.stack
        /\ undos = s.st.undos
        /\ at = s.st.at
        /\ ends = s.st.ends
        /\ rseed = s.rseed
        /\ ahead = 0
        /\ pops = 0

\* a new game whose shuffle goes on from the random register: no srand(seed).
NewGameCallNoSrand(seed) ==
    LET r == NewGame(L, rseed)
    IN  /\ becomes([r.st EXCEPT !.gameSeed = seed])
        /\ rseed' = r.rseed
        /\ ahead' = 0
        /\ pops' = 0

NewGameCall(seed) ==
    LET r == NewGame(L, seed)
    IN  /\ becomes(r.st)
        /\ rseed' = r.rseed
        /\ ahead' = 0
        /\ pops' = 0

\* a click, while the bound on moves leaves room for it to commit.
InteractCall(pick) ==
    LET r == Interact(L, pick)
    IN  /\ ahead < MaxMoves
        /\ becomes(r.st)
        /\ ahead' = IF r.ret THEN ahead + 1 ELSE ahead
        /\ UNCHANGED <<rseed, pops>>

AutoMoveCardCall ==
    LET r == AutoMoveCard(L)
    IN  /\ r.ret => ahead < MaxMoves
        /\ becomes(r.st)
        /\ ahead' = IF r.ret THEN ahead + 1 ELSE ahead
        /\ UNCHANGED <<rseed, pops>>

UndoCall ==
    LET l == Undo(L)
        popped == Len(l.stack) < Len(stack)
    IN  /\ Len(stack) > 1 => undos < MaxUndos
        /\ becomes(l)
        /\ pops' = IF popped THEN pops + 1 ELSE pops
        /\ ahead' = IF popped /\ ahead > 0 THEN ahead - 1 ELSE ahead
        /\ UNCHANGED rseed

\* game.handleCardClick on a hidden card: the collaborator clears the
\* selection.
ClearSelectedCall ==
    /\ becomes(clearSelected(L))
    /\ UNCHANGED <<rseed, ahead, pops>>

Next ==
    \/ \E seed \in Seeds : NewGameCall(seed)
    \/ \E pick \in Picks : InteractCall(pick)
    \/ AutoMoveCardCall
    \/ UndoCall
    \/ ClearSelectedCall

Spec == Init /\ [][Next]_vars

(***************************************************************************)
(* A second specification: the same calls, started from game 51 at the     *)
(* first position of its record with each number of empty freecells and    *)
(* empty cascades (Positions is the number of clicks replayed; these       *)
(* positions precede the truncated move of click 120), from game 164       *)
(* after four moves that fill the freecells, the last with the ace of      *)
(* diamonds, and from game 164 after the first 12 clicks of its record and  *)
(* one AutoMoveCard (the aces of diamonds, spades and hearts are up, the   *)
(* two and the three of spades are last in their cascades).  Win51 is a    *)
(* second record of game 51, played to the end in 101 moves; the model     *)
(* starts from it after WinPositions clicks: with all four foundations     *)
(* started, with four empty cascades, and one move before the win.         *)
(***************************************************************************)
Positions == {0, 2, 4, 6, 20, 50, 74, 82, 86, 88, 94, 96, 110, 112, 116, 118}

Cells164 == << 23, 100, 7, 101, 18, 102, 1, 103 >>

Win51 ==
    << 13, 100, 8, 101, 17, 20, 0, 104, 4, 0, 8, 4, 12, 8, 5, 101,
       14, 102, 15, 17, 9, 15, 51, 103, 2, 106, 13, 111, 21, 100, 11, 13,
       24, 29, 21, 24, 5, 11, 25, 100, 10, 101, 1, 105, 5, 1, 9, 5,
       10, 15, 11, 101, 13, 9, 14, 111, 11, 14, 10, 101, 15, 102, 17, 13,
       21, 17, 16, 12, 20, 16, 25, 21, 24, 30, 49, 100, 15, 108, 10, 15,
       46, 101, 41, 102, 6, 2, 10, 6, 29, 25, 41, 44, 11, 102, 14, 10,
       24, 20, 38, 111, 32, 38, 28, 24, 30, 32, 18, 14, 22, 27, 36, 42,
       50, 113, 33, 36, 46, 48, 44, 50, 30, 101, 32, 28, 38, 43, 43, 46,
       33, 29, 39, 41, 37, 33, 39, 111, 41, 37, 45, 41, 49, 45, 3, 107,
       7, 3, 11, 7, 30, 35, 15, 11, 42, 44, 35, 38, 22, 18, 26, 22,
       30, 26, 27, 100, 47, 101, 19, 15, 34, 30, 23, 19, 27, 23, 31, 27,
       35, 31, 36, 32, 38, 34, 39, 35, 43, 39, 47, 43, 51, 47, 42, 38,
       40, 36, 46, 42, 44, 40, 48, 44, 50, 46 >>

WinPositions == {144, 176, 200}

PositionStarts ==
    { [st |-> Replay(NewGame(Constructed, 51).st, Game51, 1, n),
       rseed |-> NewGame(Constructed, 51).rseed] : n \in Positions }
    \cup
    { [st |-> Replay(NewGame(Constructed, 51).st, Win51, 1, n),
       rseed |-> NewGame(Constructed, 51).rseed] : n \in WinPositions }
    \cup
    { [st |-> Replay(NewGame(Constructed, 164).st, Cells164, 1, 8),
       rseed |-> NewGame(Constructed, 164).rseed],
      [st |-> AutoMoveCard(Replay(NewGame(Constructed, 164).st,
                                  Game164, 1, 12)).st,
       rseed |-> NewGame(Constructed, 164).rseed] }

InitPositions ==
    \E s \in PositionStarts :
        /\ selected = s.st.selected
        /\ gameSeed = s.st.gameSeed
        /\ deal = s.st.deal
        /\ board = s.st.board
        /\ stack = s.st.stack
        /\ undos = s.st.undos
        /\ at = s.st.at
        /\ ends = s.st.ends
        /\ rseed = s.rseed
        /\ ahead = 0
        /\ pops = 0

SpecPositions == InitPositions /\ [][Next]_vars

(***************************************************************************)
(* A third specification, for the deals: the game starts with the seed of  *)
(* one of the deals of the test table, and the next and prev buttons step   *)
(* the seed by one and deal the new game.  The seeds stay within            *)
(* DealWindow of a seed of the table (and within 0..MAX_SEED, as the        *)
(* buttons keep them).                                                      *)
(***************************************************************************)
DealWindow == 500

DealSeeds ==
    UNION { {seed \in (s - DealWindow)..(s + DealWindow) :
                 seed >= 0 /\ seed <= MAX_SEED} : s \in DOMAIN games }

InitDeals ==
    \E seed \in DOMAIN games :
        LET r == NewGame(Constructed, seed)
        IN  /\ selected = r.st.selected
            /\ gameSeed = r.st.gameSeed
            /\ deal = r.st.deal
            /\ board = r.st.board
            /\ stack = r.st.stack
            /\ undos = r.st.undos
            /\ at = r.st.at
            /\ ends = r.st.ends
            /\ rseed = r.rseed
            /\ ahead = 0
            /\ pops = 0

\* the next button: the seed goes up by one and the game is dealt.
NextGameCall ==
    /\ gameSeed < MAX_SEED
    /\ gameSeed + 1 \in DealSeeds
    /\ NewGameCall(gameSeed + 1)

\* the prev button: the seed goes down by one and the game is dealt.
PrevGameCall ==
    /\ gameSeed > 0
    /\ gameSeed - 1 \in DealSeeds
    /\ NewGameCall(gameSeed - 1)

NextDeals == NextGameCall \/ PrevGameCall

SpecDeals == InitDeals /\ [][NextDeals]_vars

(***************************************************************************)
(* Properties.  Each is stated on the engine state L of a reachable state  *)
(* and on the results of the calls made from it.                           *)
(***************************************************************************)
Max0(n) == IF n > 0 THEN n ELSE 0

\* the cards whose location differs between two boards.
changed(b1, b2) == {c \in Cards : b1[c] # b2[c]}

\* C1: MoveCount() = max(0, len(stack) + 2*undos - 1), undos being the number
\* of Undo calls that popped a snapshot since the last NewGame.
C1_MoveCountFormula == MoveCount(L) = Max0(Len(stack) + 2 * pops - 1)

\* an Undo has popped a snapshot of a long game.
C1_Witness == pops >= 1 /\ Len(stack) > 50

\* C2: within one game no Interact, Undo or AutoMoveCard call lowers
\* MoveCount().
C2_MoveCountNeverDecreases ==
    /\ \A pick \in Picks : MoveCount(Interact(L, pick).st) >= MoveCount(L)
    /\ MoveCount(Undo(L)) >= MoveCount(L)
    /\ MoveCount(AutoMoveCard(L).st) >= MoveCount(L)

\* a move has been made, and undoing it pops a snapshot and raises MoveCount().
C2_Witness ==
    /\ ahead = 1
    /\ Len(Undo(L).stack) < Len(stack)
    /\ MoveCount(Undo(L)) > MoveCount(L)

\* the states of a game in which no move has been made or undone.
FreshGame == Len(stack) = 1 /\ undos = 0

\* C3 (as the code behaves): MoveCount() is 0 after NewGame, 1 after one
\* successful Interact move, 2 after that move plus one Undo, and 3 after
\* making the same move again.
C3_CountsUndoTwice ==
    (FreshGame /\ isSelectionActive(L)) =>
        \A pick \in Picks :
            LET first == Interact(L, pick)
                undone == Undo(first.st)
                again == Interact(Interact(undone, selected).st, pick)
            IN  first.ret =>
                    /\ MoveCount(L) = 0
                    /\ MoveCount(first.st) = 1
                    /\ MoveCount(undone) = 2
                    /\ again.ret
                    /\ again.st.board = first.st.board
                    /\ MoveCount(again.st) = 3

\* C3 as stated: 0 after NewGame, 1 after the move, 0 after the Undo and 1
\* after making the move again.
C3_AsStated ==
    (FreshGame /\ isSelectionActive(L)) =>
        \A pick \in Picks :
            LET first == Interact(L, pick)
                undone == Undo(first.st)
                again == Interact(Interact(undone, selected).st, pick)
            IN  first.ret =>
                    /\ MoveCount(L) = 0
                    /\ MoveCount(first.st) = 1
                    /\ MoveCount(undone) = 0
                    /\ again.ret
                    /\ MoveCount(again.st) = 1

\* a new game in which one move was made, undone and made again.
C3_Witness ==
    /\ Len(stack) = 2
    /\ undos = 1
    /\ ahead = 1
    /\ \A c \in Cards : stack[1][c] >= 8 /\ stack[1][c] <= 59

\* C4 (as the code behaves): MoveCount() exceeds max(0, historyLength - 1)
\* by exactly twice the undo counter, so the two are equal only while no
\* Undo has popped a snapshot.
C4_ExceedsByTwiceUndos == MoveCount(L) - Max0(Len(stack) - 1) = 2 * undos

\* C4 as stated: MoveCount() = max(0, historyLength - 1) whatever the number
\* of Undo calls.
C4_AsStated == MoveCount(L) = Max0(Len(stack) - 1)

\* a snapshot has been popped and MoveCount() is historyLength + 1.
C4_Witness == undos = 1 /\ MoveCount(L) = Len(stack) + 1

\* C5: after every Interact or AutoMoveCard call that returns true, an
\* immediate Undo makes the board equal, in all 52 entries, to the board
\* before the call.
C5_UndoRestoresBoard ==
    /\ \A pick \in Picks :
          LET r == Interact(L, pick)
          IN  r.ret => Undo(r.st).board = board
    /\ LET a == AutoMoveCard(L)
       IN  a.ret => Undo(a.st).board = board

\* the last move put a sequence of two or more cards on a cascade that was
\* empty, and Undo gives the board before it.
C5_Witness ==
    /\ Len(stack) >= 2
    /\ LET before == stack[Len(stack) - 1]
       IN  /\ Cardinality(changed(before, board)) >= 2
           /\ \E pileID \in 8..15 :
                 /\ \A c \in Cards : before[c] # pileID
                 /\ \E c \in changed(before, board) : board[c] = pileID
           /\ Undo(L).board = before

\* the foundation slots whose visible top is a card, and that card.
visibleTop(f) == CHOOSE c \in Cards : board[c] = f

\* C6: a card placed by Interact or AutoMoveCard onto a foundation whose
\* visible top is card p at slot f leaves board[p] = f + 9999 and the placed
\* card at f; a following Undo puts p back at f and the placed card back
\* where it was.
C6_FoundationBurial ==
    \A f \in FC..FS :
        (\E c \in Cards : board[c] = f) =>
            LET p == visibleTop(f)
                a == AutoMoveCard(L)
                r == Interact(L, p)
            IN  /\ (isSelectionActive(L) /\ r.ret) =>
                      /\ r.st.board[p] = f + HIDDEN_CARD
                      /\ r.st.board[selected] = f
                      /\ Undo(r.st).board[p] = f
                      /\ Undo(r.st).board[selected] = board[selected]
                /\ \A c \in Cards :
                      (a.ret /\ board[c] # f /\ a.st.board[c] = f) =>
                          /\ a.st.board[p] = f + HIDDEN_CARD
                          /\ Undo(a.st).board[p] = f
                          /\ Undo(a.st).board[c] = board[c]

\* the last move buried a foundation top: a card is hidden under slot f, it
\* was the visible top of f before the move, and Undo shows it again.
C6_Witness ==
    /\ Len(stack) >= 2
    /\ \E f \in FC..FS : \E p \in Cards :
          /\ board[p] = f + HIDDEN_CARD
          /\ stack[Len(stack) - 1][p] = f
          /\ \E c \in Cards : board[c] = f
          /\ Undo(L).board[p] = f

\* C7: the history holds at least one snapshot, its bottom snapshot is the
\* initial deal of the game, and an Undo with one snapshot left changes
\* nothing but the selection.
C7_DealStaysAtBottom ==
    /\ Len(stack) >= 1
    /\ deal = shuffle(gameSeed).deal
    /\ \A cid \in Cards : stack[1][deal[cid]] = cid + 8
    /\ Len(stack) = 1 =>
          LET u == Undo(L)
          IN  /\ u.board = board
              /\ u.stack = stack
              /\ u.undos = undos
              /\ MoveCount(u) = MoveCount(L)
              /\ u.selected = NO_CARD

\* one snapshot is left, a card is selected, and Undo clears the selection
\* and keeps the snapshot.
C7_Witness ==
    /\ Len(stack) = 1
    /\ isSelectionActive(L)
    /\ Undo(L).selected = NO_CARD
    /\ Undo(L).stack = stack

\* C8 as stated: every card's location is in 0..3, 4..7, 8..167 or
\* 10003..10006, and no two cards share a freecell, a foundation top or a
\* cascade cell.
C8_AsStated ==
    /\ \A c \in Cards :
          \/ board[c] >= 0 /\ board[c] <= MAX_BOARD_ID
          \/ board[c] >= FC + HIDDEN_CARD /\ board[c] <= FS + HIDDEN_CARD
    /\ \A c, d \in Cards :
          (c # d /\ board[c] = board[d]) => board[c] > MAX_BOARD_ID

\* C9 as stated: for every card at a cascade location loc >= 16 there is a
\* card at loc - 8.
C9_AsStated ==
    \A c \in Cards :
        (board[c] >= 16 /\ board[c] <= MAX_BOARD_ID) =>
            \E d \in Cards : board[d] = board[c] - 8

\* C10: NewGame(seed), from every state and from the engine as constructed,
\* leaves the card at deck position i of shuffle(seed) at location i + 8, no
\* card in a freecell or on a foundation, no selection, undos = 0 and one
\* snapshot equal to the board.
dealtBy(l, seed) ==
    LET n == NewGame(l, seed).st
    IN  /\ n.deal = shuffle(seed).deal
        /\ \A i \in Cards : n.board[n.deal[i]] = i + 8
        /\ \A loc \in 8..59 : Cardinality({c \in Cards : n.board[c] = loc}) = 1
        /\ \A c \in Cards : ~isFreecell(n.board[c]) /\ ~isFoundation(n.board[c])
        /\ n.selected = NO_CARD
        /\ n.undos = 0
        /\ n.stack = <<n.board>>
        /\ n.gameSeed = seed

C10_NewGameDeals ==
    \A seed \in Seeds : dealtBy(L, seed) /\ dealtBy(Constructed, seed)

\* NewGame(MAX_SEED) has been called in a session that was under way.
C10_Witness ==
    /\ gameSeed = MAX_SEED
    /\ Len(stack) = 1
    /\ stack[1] = board
    /\ selected = NO_CARD

\* C11: an Interact call that returns false changes neither the board nor
\* the history; one that returns true changes at least one card's location,
\* appends exactly one snapshot equal to the new board and leaves no
\* selection.
C11_ReturnTellsCommit ==
    \A pick \in Picks :
        LET r == Interact(L, pick)
        IN  IF r.ret
            THEN /\ changed(board, r.st.board) # {}
                 /\ r.st.stack = Append(stack, r.st.board)
                 /\ r.st.selected = NO_CARD
                 /\ r.st.undos = undos
            ELSE /\ r.st.board = board
                 /\ r.st.stack = stack
                 /\ r.st.undos = undos

\* a card is selected, one pick commits a move and another pick is rejected.
C11_Witness ==
    /\ isSelectionActive(L)
    /\ \E pick \in Picks : Interact(L, pick).ret
    /\ \E pick \in Picks : ~Interact(L, pick).ret /\ Interact(L, pick).st.selected # selected

\* the empty freecells and empty cascades of a board, counted on the board
\* itself, and the movable stack size the rules give for them.
emptyFreecellsOn(b) == Cardinality({p \in 0..3 : \A c \in Cards : b[c] # p})
emptyCascadesOn(b) == Cardinality({p \in 8..15 : \A c \in Cards : b[c] # p})

capacity(F, E, used) ==
    IF E = 0 THEN F + 1
    ELSE LET E1 == IF used THEN E - 1 ELSE E
         IN  IF E1 > 0 THEN 2 * (F + 1 + (E1 - 1)) ELSE F + 1

capacityOn(b, used) == capacity(emptyFreecellsOn(b), emptyCascadesOn(b), used)

\* the picks that name an empty-cascade pile.
CascadePiles == (EMPTY_PILE1 + 8)..(EMPTY_PILE1 + 15)

\* the picks that reach the 'aborting sequence move' branch: an empty cascade
\* is picked and the selected run is longer than movableStackSize(true).
abortsSequenceMove(l, pick) ==
    /\ pick >= EMPTY_PILE1 + 8
    /\ pick <= EMPTY_PILE1 + 15
    /\ emptyPile(l, pick - EMPTY_PILE1)
    /\ Len(GetSelected(l)) > capacityOn(l.board, TRUE)

hasDestination(l) ==
    \/ \E target \in EMPTY_PILE1..EMPTY_PILE16 : Interact(l, target).ret
    \/ \E target \in Cards : Interact(l, target).ret

C13_SelectedCardCanMove ==
    \A pick \in Picks :
        LET r == Interact(L, pick)
        IN  (isCard(r.st.selected) /\ r.st.selected # selected) =>
                hasDestination(r.st)

\* a card is selected, a rejected placement on another card selects that card
\* instead, and the new selection has a destination.
C13_Witness ==
    /\ isSelectionActive(L)
    /\ \E pick \in Cards :
          LET r == Interact(L, pick)
          IN  /\ pick # selected
              /\ ~canPlaceCard(L, pick)
              /\ r.st.selected = pick
              /\ hasDestination(r.st)

\* the cards a call relocated together: those whose location changed, less
\* the foundation top that the move buried.
relocated(b1, b2) == {c \in changed(b1, b2) : b2[c] <= MAX_BOARD_ID}

\* C14: every move committed by Interact relocates at most
\* movableStackSize(t) cards, computed on the board before the move, where t
\* is true iff the destination is an empty cascade.
C14_MovesWithinCapacity ==
    \A pick \in Picks :
        LET r == Interact(L, pick)
        IN  r.ret =>
                Cardinality(relocated(board, r.st.board))
                    <= capacityOn(board, pick \in CascadePiles)

\* the last move took three or more cards to another cascade, within the
\* capacity of the board before it.
C14_Witness ==
    /\ Len(stack) >= 2
    /\ ahead = 1
    /\ LET before == stack[Len(stack) - 1]
           n == Cardinality(relocated(before, board))
       IN  /\ n >= 3
           /\ \A c \in relocated(before, board) : isCascade(board[c])
           /\ n <= capacityOn(before, FALSE)

\* C15: movableStackSize(used) is F + 1 with no empty cascade; otherwise,
\* with E' = E - 1 if used and E' = E if not, it is 2 * (F + 1 + (E' - 1)) if
\* E' > 0 and F + 1 if E' = 0.  With one empty cascade used as the target it
\* is F + 1; with two empty cascades, none of them the target, it is
\* 2 * (F + 2).
C15_MovableStackSizeFormula ==
    LET F == emptyFreecellsOn(board)
        E == emptyCascadesOn(board)
    IN  /\ F \in 0..4 /\ E \in 0..8
        /\ \A used \in BOOLEAN : movableStackSize(L, used) = capacity(F, E, used)
        /\ E = 0 => \A used \in BOOLEAN : movableStackSize(L, used) = F + 1
        /\ E = 1 => movableStackSize(L, TRUE) = F + 1
        /\ E = 2 => movableStackSize(L, FALSE) = 2 * (F + 2)

\* two cascades and one freecell are empty: six cards may go to a cascade
\* card and four to one of the empty cascades.
C15_Witness ==
    /\ emptyCascadesOn(board) = 2
    /\ emptyFreecellsOn(board) = 1
    /\ movableStackSize(L, FALSE) = 6
    /\ movableStackSize(L, TRUE) = 4

\* a card that sits in a freecell or has no card on the cell after it in its
\* cascade.
freecellOrLast(c) ==
    \/ isFreecell(board[c])
    \/ isCascade(board[c]) /\ \A d \in Cards : board[d] # board[c] + 8

\* the pick that puts card c on the foundation of its suit: the empty-pile id
\* of that foundation for an ace on the empty foundation, the visible top for
\* the card one rank above it, NO_CARD if c is not next for its foundation.
foundationPick(c) ==
    LET f == deck[c].Suit + 4
        tops == {d \in Cards : board[d] = f}
    IN  IF tops = {}
        THEN IF deck[c].Rank = ACES THEN EMPTY_PILE1 + f ELSE NO_CARD
        ELSE LET top == CHOOSE d \in tops : TRUE
             IN  IF deck[top].Suit = deck[c].Suit /\ deck[top].Rank + 1 = deck[c].Rank
                 THEN top
                 ELSE NO_CARD

\* the cascade cards that card c may be put on: no card after them in their
\* cascade, one rank higher and of the other colour.
cascadeTargets(c) ==
    {d \in Cards : /\ isCascade(board[d])
                   /\ \A e \in Cards : board[e] # board[d] + 8
                   /\ deck[d].Rank = deck[c].Rank + 1
                   /\ deck[d].Color # deck[c].Color}

singleCardDestination(c) ==
    \/ emptyFreecellsOn(board) > 0
    \/ foundationPick(c) # NO_CARD
    \/ emptyCascadesOn(board) > 0
    \/ cascadeTargets(c) # {}

\* C16: with no selection active, a card in a freecell or last in its
\* cascade that has a single-card destination becomes the selection when
\* picked; a freecell card that is next for its foundation is selected and
\* the pick of its foundation then puts it there.
C16_MovableCardIsSelectable ==
    ~isSelectionActive(L) =>
        \A c \in Cards :
            (freecellOrLast(c) /\ singleCardDestination(c)) =>
                LET r == Interact(L, c)
                IN  /\ ~r.ret
                    /\ r.st.selected = c
                    /\ canSelectCard(L, c)
                    /\ (isFreecell(board[c]) /\ foundationPick(c) # NO_CARD) =>
                          LET p == Interact(r.st, foundationPick(c))
                          IN  /\ p.ret
                              /\ p.st.board[c] = deck[c].Suit + 4

\* no selection, no empty freecell, no empty cascade: a freecell card with
\* no cascade card to go on is next for its foundation, is selected when
\* picked and goes up.
C16_Witness ==
    /\ ~isSelectionActive(L)
    /\ emptyFreecellsOn(board) = 0
    /\ emptyCascadesOn(board) = 0
    /\ \E c \in Cards :
          /\ isFreecell(board[c])
          /\ cascadeTargets(c) = {}
          /\ foundationPick(c) # NO_CARD
          /\ Interact(L, c).st.selected = c
          /\ Interact(Interact(L, c).st, foundationPick(c)).ret

\* C17: with card s selected and a pick that canPlaceCard rejects, Interact
\* moves no card and leaves pick selected if pick # s and pick is a
\* selectable card, and nothing selected otherwise; picking the selected
\* card deselects it, and no Interact call made with a selection active
\* leaves the same card selected.
C17_RejectedPickReselects ==
    isSelectionActive(L) =>
        /\ \A pick \in Picks :
              LET r == Interact(L, pick)
              IN  /\ r.st.selected # selected
                  /\ ~canPlaceCard(L, pick) =>
                        /\ ~r.ret
                        /\ r.st.board = board
                        /\ r.st.stack = stack
                        /\ r.st.selected =
                              IF pick # selected /\ canSelectCard(L, pick)
                              THEN pick
                              ELSE NO_CARD
        /\ Interact(L, selected).st.selected = NO_CARD
        /\ ~Interact(L, selected).ret

\* a card is selected that could be selected again; one rejected pick selects
\* another card and another rejected pick leaves nothing selected.
C17_Witness ==
    /\ isSelectionActive(L)
    /\ canSelectCard(L, selected)
    /\ \E pick \in Cards :
          ~canPlaceCard(L, pick) /\ Interact(L, pick).st.selected = pick
    /\ \E pick \in Cards \ {selected} :
          ~canPlaceCard(L, pick) /\ Interact(L, pick).st.selected = NO_CARD

\* a card on a foundation, visible or hidden, and the foundation it is on.
onFoundation(b, c) ==
    \/ isFoundation(b[c])
    \/ b[c] >= FC + HIDDEN_CARD /\ b[c] <= FS + HIDDEN_CARD

foundationOf(b, c) == IF b[c] >= HIDDEN_CARD THEN b[c] - HIDDEN_CARD ELSE b[c]

\* C18: a card on a foundation, visible or hidden, is on the foundation of
\* its suit, is not selected and is not selected by any pick, and stays on
\* that foundation through every Interact and AutoMoveCard call.
C18_FoundationCardsStay ==
    \A c \in Cards :
        onFoundation(board, c) =>
            /\ foundationOf(board, c) = deck[c].Suit + 4
            /\ selected # c
            /\ ~canSelectCard(L, c)
            /\ \A pick \in Picks :
                  LET r == Interact(L, pick)
                  IN  /\ r.st.selected # c
                      /\ onFoundation(r.st.board, c)
                      /\ foundationOf(r.st.board, c) = foundationOf(board, c)
            /\ LET a == AutoMoveCard(L)
               IN  /\ a.st.selected # c
                   /\ onFoundation(a.st.board, c)
                   /\ foundationOf(a.st.board, c) = foundationOf(board, c)

\* a foundation holds a visible top and a hidden card below it, a card is
\* selected, and picking either foundation card selects neither.
C18_Witness ==
    /\ isSelectionActive(L)
    /\ \E c, d \in Cards :
          /\ isFoundation(board[c])
          /\ board[d] = board[c] + HIDDEN_CARD
          /\ Interact(L, c).st.selected # c
          /\ Interact(L, d).st.selected # d
          /\ Interact(L, d).st.board = board

\* no snapshot but the deal's: no move was committed and none undone since
\* the game was dealt.
noMoveYet == ahead = 0 /\ pops = 0 /\ Len(stack) = 1

\* C19: while no Interact call has returned true since the last NewGame,
\* AutoMoveCard returns false and changes neither board, history nor
\* selection.
C19_AutoMoveWaitsForFirstMove ==
    noMoveYet => AutoMoveCard(L) = [st |-> L, ret |-> FALSE]

\* a fresh deal shows an ace at the end of a cascade and AutoMoveCard leaves
\* it there.
C19_Witness ==
    /\ noMoveYet
    /\ \E i \in 1..12 : eligible(L, candidates(L)[i])
    /\ ~AutoMoveCard(L).ret

\* the minimum rank of the visible foundation tops, -1 if a foundation has
\* none.
lowestTop ==
    LET tops == {c \in Cards : isFoundation(board[c])}
    IN  IF \A f \in FC..FS : \E c \in tops : board[c] = f
        THEN CHOOSE r \in {deck[c].Rank : c \in tops} :
                \A c \in tops : r <= deck[c].Rank
        ELSE -1

\* the cards AutoMoveCard puts on a foundation from elsewhere.
promotedBy(a) ==
    {c \in Cards : ~onFoundation(board, c) /\ isFoundation(a.st.board[c])}

C21_OnePromotionPerCall ==
    LET a == AutoMoveCard(L)
    IN  IF a.ret
        THEN \E c \in Cards :
                LET f == deck[c].Suit + 4
                    tops == {p \in Cards : board[p] = f}
                IN  /\ isFreecell(board[c]) \/ isCascade(board[c])
                    /\ a.st.board[c] = f
                    /\ Cardinality(tops) <= 1
                    /\ \A p \in tops : a.st.board[p] = f + HIDDEN_CARD
                    /\ changed(board, a.st.board) = {c} \cup tops
                    /\ a.st.stack = Append(stack, a.st.board)
                    /\ a.st.undos = undos
        ELSE /\ a.st.board = board
             /\ a.st.stack = stack
             /\ a.st.undos = undos
             /\ a.st.selected = selected

\* AutoMoveCard promotes a card onto a foundation that has a top card, and a
\* second call would promote another card.
C21_Witness ==
    LET a == AutoMoveCard(L)
    IN  /\ a.ret
        /\ \E c \in changed(board, a.st.board) : isFoundation(board[c])
        /\ AutoMoveCard(a.st).ret

\* the card a true AutoMoveCard result a promoted from board b.
promotedFrom(b, a) ==
    {c \in Cards : b[c] # a.st.board[c] /\ isFoundation(a.st.board[c])}

\* C22: if the card promoted by AutoMoveCard was selected before the call,
\* as the selected card or as a member of the sequence GetSelected() returns,
\* the selection is none after the call.
C22_AsStated ==
    LET a == AutoMoveCard(L)
        sel == GetSelected(L)
    IN  a.ret =>
            \A i \in 1..Len(sel) :
                sel[i] \in promotedFrom(board, a) => a.st.selected = NO_CARD

\* C23: PreviousBoard() is the board before the most recent committed
\* change: right after an Interact or AutoMoveCard call that returns true it
\* is the Board() value from just before the call, and with a single
\* snapshot, as right after NewGame, it is the current Board().
C23_PreviousBoardIsBoardBefore ==
    /\ \A pick \in Picks :
          LET r == Interact(L, pick)
          IN  r.ret => PreviousBoard(r.st) = board
    /\ LET a == AutoMoveCard(L)
       IN  a.ret => PreviousBoard(a.st) = board
    /\ Len(stack) = 1 => PreviousBoard(L) = board

\* a move has just been committed: PreviousBoard() differs from Board(), and
\* Undo gives it back as the board.
C23_Witness ==
    /\ ahead = 1
    /\ Len(stack) >= 2
    /\ PreviousBoard(L) # board
    /\ Undo(L).board = PreviousBoard(L)

\* C24: IsGameWon() is true iff the four kings are stored at their suit's
\* foundation slot value (the king of clubs at 4, of diamonds at 5, of hearts
\* at 6, of spades at 7, and not at the hidden value 9999 more), which makes
\* each king the one card stored at its slot; it is false with the single
\* snapshot NewGame leaves.
C24_WonIffKingsOnFoundations ==
    /\ IsGameWon(L) <=> \A s \in 0..3 : {c \in Cards : board[c] = 4 + s} = {48 + s}
    /\ Len(stack) = 1 => ~IsGameWon(L)

\* the last move won the game: before it the king of hearts was not up.
C24_Witness ==
    /\ IsGameWon(L)
    /\ ahead = 1
    /\ PreviousBoard(L)[KH] # FH

\* the pick is neither a card id nor an empty-pile id.
invalidPick(pick) == ~isCard(pick) /\ ~(pick >= EMPTY_PILE1 /\ pick <= EMPTY_PILE16)

\* the pick names a pile the selection cannot go to: nothing is selected, the
\* pile holds a card, it is a freecell or a foundation and more than one card
\* is selected, or it is a foundation and the selected card is not the ace
\* of its suit.
closedPile(pick) ==
    LET pileID == pick - EMPTY_PILE1
    IN  /\ pick >= EMPTY_PILE1 /\ pick <= EMPTY_PILE16
        /\ \/ ~isSelectionActive(L)
           \/ \E c \in Cards : board[c] = pileID
           \/ pileID <= 7 /\ Len(GetSelected(L)) > 1
           \/ isFoundation(pileID) /\ selected # 4 * ACES + (pileID - 4)

\* C25: Interact with a pick that is neither a card id nor an empty-pile id,
\* or with the id of a pile the current selection cannot go to, returns false
\* and leaves the board and the history unchanged, with or without an
\* active selection.
C25_BadPickIsNoOp ==
    \A pick \in Picks :
        (invalidPick(pick) \/ closedPile(pick)) =>
            LET r == Interact(L, pick)
            IN  /\ ~r.ret
                /\ r.st.board = board
                /\ r.st.stack = stack
                /\ r.st.undos = undos

\* a card is selected, a freecell holds a card, and clicking that freecell's
\* pile id, or a value that is no id at all, moves nothing.
C25_Witness ==
    /\ isSelectionActive(L)
    /\ \E pileID \in 0..3 :
          /\ \E c \in Cards : board[c] = pileID
          /\ ~Interact(L, EMPTY_PILE1 + pileID).ret
    /\ ~Interact(L, NO_CARD).ret
    /\ Interact(L, 116).st.board = board

\* the run collected in v goes on: the card under its last card is the next
\* in sequence.
runGoesOn(l, v) ==
    LET last == v[Len(v)]
        next == cardAt(l, l.board[last] + 8)
    IN  next # NO_CARD /\ nextInSequence(getCard(last), getCard(next))

\* GetSelected stops at its limit of 10 cards with the run going on.
selectedCapTriggers(l) ==
    /\ isSelectionActive(l)
    /\ Len(GetSelected(l)) >= maxCascade
    /\ runGoesOn(l, GetSelected(l))

\* the loop of getSequence stops at its limit of 13 cards with the run going
\* on, for the run starting at cardID.
sequenceCapTriggers(l, cardID) ==
    /\ isCascade(l.board[cardID])
    /\ LET v == getSequenceLoop(l, cardID, cardAt(l, l.board[cardID] + 8),
                                <<cardID>>)
       IN  Len(v) >= seqSafety /\ runGoesOn(l, v)

\* C26: the loop-safety limits never trigger: in no reachable state does
\* getSequence stop because of its 13-card limit, nor GetSelected because of
\* its 10-card limit while the next card still continues the run.
C26_AsStated ==
    /\ ~selectedCapTriggers(L)
    /\ \A cardID \in Cards : ~sequenceCapTriggers(L, cardID)

\* the board locations a card can be stored at: a freecell, a foundation
\* slot, the hidden value of a foundation slot, or a cascade cell.
storable(loc) ==
    \/ isFreecell(loc)
    \/ isFoundation(loc)
    \/ loc >= HIDDEN_CARD + FC /\ loc <= HIDDEN_CARD + FS
    \/ isCascade(loc)

\* C27 as stated: no card's board location is one of the values 100..115.
C27_AsStated ==
    \A c \in Cards : ~(board[c] >= EMPTY_PILE1 /\ board[c] <= EMPTY_PILE16)

\* C27 (as the code behaves): an empty-pile pick is never stored as such.
\* A move made with the pick p of 100..115 stores the selected card at the
\* pile's location p - 100 and the cards of its sequence in the cells below
\* it, 8 apart, none of them at p; the values 100..115 occur as locations
\* only as cascade cells, which run from 8 to 167.
C27_PickStoredAsPile ==
    /\ \A c \in Cards : storable(board[c])
    /\ \A pick \in EMPTY_PILE1..EMPTY_PILE16 :
          LET r == Interact(L, pick)
              seq == GetSelected(L)
          IN  r.ret =>
                  /\ changed(board, r.st.board) = {seq[i] : i \in 1..Len(seq)}
                  /\ \A i \in 1..Len(seq) :
                        r.st.board[seq[i]] = (pick - EMPTY_PILE1) + 8 * (i - 1)
                  /\ \A c \in changed(board, r.st.board) : r.st.board[c] # pick

\* the last move put a card on an empty freecell, and a card lies in a
\* cascade cell numbered 100..115.
C27_Witness ==
    /\ ahead = 1
    /\ \E c \in changed(PreviousBoard(L), board) :
          /\ isFreecell(board[c])
          /\ \A d \in Cards : PreviousBoard(L)[d] # board[c]
    /\ \E c \in Cards : board[c] >= EMPTY_PILE1 /\ board[c] <= EMPTY_PILE16

\* C28: shuffle(seed) returns a permutation of the deck: each of the 52
\* cards appears exactly once among the 52 cards dealt.
C28_DealIsPermutation ==
    LET d == shuffle(gameSeed).deal
    IN  /\ DOMAIN d = Cards
        /\ \A c \in Cards : Cardinality({i \in Cards : d[i] = c}) = 1

\* the next button has dealt game 32000, which is not the sorted deck.
C28_Witness ==
    /\ gameSeed = 32000
    /\ deal = shuffle(32000).deal
    /\ \E i \in Cards : deal[i] # i

\* C29: shuffle reproduces the published deals.  For the seeds 1, 2, 11982,
\* 31999 and 999999 the 52 cards dealt, drawn with the register
\* state = (state * 214013 + 2531011) & 0x7FFFFFFF and the output state >> 16,
\* have the symbols of the test table, in order; seed 1 starts JD 2D 9H JC
\* 5D 7H 7C 5H.  (The register formula is compared on the seeds up to 10000,
\* for which state * 214013 + 2531011 is below 2^31 and the mask leaves it.)
C29_PublishedDeals ==
    /\ DOMAIN games = {1, 2, 11982, 31999, 999999}
    /\ gameSeed \in DOMAIN games =>
          LET d == shuffle(gameSeed).deal
          IN  \A i \in Cards : Sym(d[i]) = games[gameSeed][i + 1]
    /\ gameSeed = 1 =>
          LET d == shuffle(1).deal
          IN  <<Sym(d[0]), Sym(d[1]), Sym(d[2]), Sym(d[3]),
                Sym(d[4]), Sym(d[5]), Sym(d[6]), Sym(d[7])>>
              = <<"JD", "2D", "9H", "JC", "5D", "7H", "7C", "5H">>
    /\ gameSeed <= 10000 =>
          /\ randState(gameSeed) = gameSeed * 214013 + 2531011
          /\ randClassic(randState(gameSeed))
                = (gameSeed * 214013 + 2531011) \div 65536

\* game 999999 has been dealt: its first card is the ace of hearts and its
\* last the seven of diamonds, as published.
C29_Witness ==
    /\ gameSeed = MAX_SEED
    /\ Sym(deal[0]) = "AH"
    /\ Sym(deal[51]) = "7D"
    /\ deal = shuffle(MAX_SEED).deal

\* the deal of every seed the buttons reach.
dealOf == [seed \in DealSeeds |-> shuffle(seed).deal]

\* C30: deals are unique per seed: the deal of the game, which is the deal
\* shuffle returns for its seed, differs from the deal shuffle returns for
\* every other seed of the range.
C30_DealsDiffer ==
    /\ deal = shuffle(gameSeed).deal
    /\ \A other \in DealSeeds : other # gameSeed => dealOf[other] # deal

\* game 32000, the first seed past the original 32,000 games, has been
\* dealt, and its deal differs from the deals of games 31999 and 0.
C30_Witness ==
    /\ gameSeed = 32000
    /\ deal = dealOf[32000]
    /\ deal # dealOf[31999]
    /\ deal # dealOf[0]

\* NewGame(seed) called on the engine as constructed, for the seeds that
\* NewGame is called with.
freshOf == [seed \in Seeds |-> NewGame(Constructed, seed)]

\* C31: shuffle and NewGame are deterministic in the seed alone.  A game in
\* which no move was made or undone has the deal, the board, the single
\* snapshot and the random register that NewGame gives for its seed on a
\* newly constructed engine, whatever the register, the board, the selection
\* and the history were when NewGame was called.
C31_DealDependsOnSeedOnly ==
    (FreshGame /\ gameSeed \in Seeds) =>
        /\ deal = freshOf[gameSeed].st.deal
        /\ board = freshOf[gameSeed].st.board
        /\ stack = <<board>>
        /\ rseed = freshOf[gameSeed].rseed

\* game 1 has been dealt over a position of another game (every start is a
\* position of game 51 or 164, with the register their shuffle left).
C31_Witness ==
    /\ FreshGame
    /\ gameSeed = 1
    /\ selected = NO_CARD
    /\ board = freshOf[1].st.board
    /\ rseed # NewGame(Constructed, 164).rseed

\* the eight games known to have no solution.
unsolvable == {11982, 146692, 186216, 455889, 495505, 512118, 517776, 781948}

\* the seeds IsGameSolvable is asked about: the seed of the game, as
\* resetBoard does, the eight games, their neighbours and the ends of the
\* range of seeds.
askedSeeds ==
    {gameSeed, 0, MAX_SEED} \cup unsolvable
    \cup {seed - 1 : seed \in unsolvable} \cup {seed + 1 : seed \in unsolvable}

\* C32: IsGameSolvable(seed) is false exactly for the eight seeds 11982,
\* 146692, 186216, 455889, 495505, 512118, 517776 and 781948, the list that
\* the binary search goes through being in ascending order, whatever the
\* game that has been dealt.
C32_UnsolvableSeeds ==
    /\ \A i, j \in 1..Len(UnsolvableGames) :
          i < j => UnsolvableGames[i] < UnsolvableGames[j]
    /\ \A seed \in askedSeeds : IsGameSolvable(L, seed) <=> seed \notin unsolvable

\* game 11982 has been dealt, and it is reported to have no solution.
C32_Witness ==
    /\ gameSeed = 11982
    /\ ~IsGameSolvable(L, gameSeed)
    /\ IsGameSolvable(L, 11983)

\* C33: whenever a selection is active the sequence GetSelected() returns is
\* valid: it starts with the selected card, each following card lies 8
\* locations further in the cascade and is one rank lower and of the other
\* colour than the card before it, no card lies on its last card, and its
\* length is at most the movable stack size.
C33_AsStated ==
    isSelectionActive(L) =>
        LET seq == GetSelected(L)
            n == Len(seq)
        IN  /\ n >= 1
            /\ seq[1] = selected
            /\ \A i \in 2..n :
                  /\ isCascade(board[seq[i - 1]])
                  /\ board[seq[i]] = board[seq[i - 1]] + 8
                  /\ deck[seq[i]].Rank = deck[seq[i - 1]].Rank - 1
                  /\ deck[seq[i]].Color # deck[seq[i - 1]].Color
            /\ isCascade(board[seq[n]]) =>
                  \A c \in Cards : board[c] # board[seq[n]] + 8
            /\ n <= capacityOn(board, FALSE)

\* the cards of a sequence.
cardsOf(seq) == {seq[i] : i \in 1..Len(seq)}

\* C34: a committed placement of the selected sequence seq on a card p that
\* lies in a cascade has p as the last card of a cascade, seq[1] one rank
\* below p and of the other colour, and puts seq[1] at the location of p
\* plus 8 and each following card 8 further than the one before it, with
\* the locations of all cards outside seq unchanged; a committed placement
\* on the empty cascade pile k (8..15) puts seq[1] at k and the rest at
\* successive steps of 8.
C34_SequenceKeepsOrder ==
    isSelectionActive(L) =>
        LET seq == GetSelected(L)
        IN  /\ \A p \in Cards :
                  LET r == Interact(L, p)
                  IN  (isCascade(board[p]) /\ r.ret) =>
                          /\ p \notin cardsOf(seq)
                          /\ \A c \in Cards : board[c] # board[p] + 8
                          /\ deck[seq[1]].Rank = deck[p].Rank - 1
                          /\ deck[seq[1]].Color # deck[p].Color
                          /\ \A i \in 1..Len(seq) :
                                r.st.board[seq[i]] = board[p] + 8 * i
                          /\ changed(board, r.st.board) = cardsOf(seq)
            /\ \A k \in 8..15 :
                  LET r == Interact(L, EMPTY_PILE1 + k)
                  IN  r.ret =>
                          /\ \A c \in Cards : board[c] # k
                          /\ \A i \in 1..Len(seq) :
                                r.st.board[seq[i]] = k + 8 * (i - 1)
                          /\ changed(board, r.st.board) = cardsOf(seq)

\* a sequence of three or more cards is selected and can be placed on the
\* last card of another cascade.
C34_Witness ==
    /\ isSelectionActive(L)
    /\ Len(GetSelected(L)) >= 3
    /\ \E p \in Cards : isCascade(board[p]) /\ Interact(L, p).ret

\* C35: foundations stay well-formed.  For each suit s, either no card is at
\* slot 4+s and none at 4+s+9999, or one card is at slot 4+s, it has suit s
\* and some rank r, and the cards at 4+s+9999 are exactly the cards of suit s
\* of the ranks 0..r-1.
C35_FoundationsWellFormed ==
    \A s \in CLB..SPD :
        LET top == {c \in Cards : board[c] = FC + s}
            hidden == {c \in Cards : board[c] = FC + s + HIDDEN_CARD}
        IN  IF top = {} THEN hidden = {}
            ELSE /\ Cardinality(top) = 1
                 /\ \A c \in top :
                       /\ deck[c].Suit = s
                       /\ hidden = {4 * r + s : r \in 0..(deck[c].Rank - 1)}

\* the last move put a card of rank three or higher on its foundation, over
\* two or more hidden cards.
C35_Witness ==
    /\ ahead = 1
    /\ \E c \in changed(PreviousBoard(L), board) :
          /\ isFoundation(board[c])
          /\ deck[c].Rank >= 2
          /\ Cardinality({d \in Cards : board[d] = board[c] + HIDDEN_CARD}) >= 2

\* the place of a card in the scan of AutoMoveCard: 0..3 for the freecells,
\* 4..11 for the lowest card of the cascade columns 0..7, 12 for a card the
\* scan does not reach.
scanPlace(c) ==
    IF isFreecell(board[c]) THEN board[c]
    ELSE IF isCascade(board[c])
              /\ \A d \in Cards :
                    (isCascade(board[d]) /\ board[d] % 8 = board[c] % 8)
                        => board[d] <= board[c]
         THEN 4 + (board[c] % 8)
         ELSE 12

\* the cards of the scan that may go up: next on the foundation of their
\* suit and of rank lowestTop + 1 or lowestTop + 2.
mayGoUp ==
    {c \in Cards :
        /\ scanPlace(c) < 12
        /\ deck[c].Rank \in {lowestTop + 1, lowestTop + 2}
        /\ IF deck[c].Rank = ACES
           THEN \A d \in Cards : board[d] # deck[c].Suit + 4
           ELSE board[c - 4] = deck[c].Suit + 4}

\* C36: AutoMoveCard promotes the first card that may go up in the order
\* freecell 0, 1, 2, 3, then the last card of cascade column 0, 1, ..., 7;
\* the card is the same whether no card, a card that may go up or another
\* card is selected, and whatever the count of undos and the snapshots under
\* the top of the history.
C36_FirstEligibleInScanOrder ==
    LET a == AutoMoveCard(L)
    IN  a.ret =>
            /\ \A c \in promotedBy(a) :
                  /\ c \in mayGoUp
                  /\ \A d \in mayGoUp : scanPlace(c) <= scanPlace(d)
            /\ \A sel \in mayGoUp \cup {NO_CARD, KS} :
                  \A l \in {[L EXCEPT !.selected = sel],
                            [L EXCEPT !.selected = sel, !.undos = @ + 1],
                            [L EXCEPT !.selected = sel,
                                      !.stack = <<board, board>>]} :
                      /\ AutoMoveCard(l).ret
                      /\ promotedBy(AutoMoveCard(l)) = promotedBy(a)

\* two cascade cards may go up, a card is selected, and AutoMoveCard promotes
\* the one of the column further left.
C36_Witness ==
    LET a == AutoMoveCard(L)
    IN  /\ a.ret
        /\ selected # NO_CARD
        /\ \E c \in promotedBy(a) :
              \E d \in mayGoUp : scanPlace(c) >= 4 /\ scanPlace(d) > scanPlace(c)

\* the board of l is the newest snapshot of its history.
boardIsTop(l) == Len(l.stack) >= 1 /\ l.board = l.stack[Len(l.stack)]

\* C37: the board equals the top snapshot of the history stack in every
\* state, and after every call: an Interact that returns false leaves the
\* board and the history as they were, an Interact or AutoMoveCard that
\* returns true has pushed the board it made, and Undo sets the board to the
\* new top.
C37_BoardIsTopOfHistory ==
    /\ boardIsTop(L)
    /\ \A pick \in Picks :
          LET r == Interact(L, pick)
          IN  /\ boardIsTop(r.st)
              /\ ~r.ret => r.st.board = board /\ r.st.stack = stack
    /\ boardIsTop(AutoMoveCard(L).st)
    /\ LET u == Undo(L)
       IN  /\ boardIsTop(u)
           /\ Len(stack) > 1 => u.stack = SubSeq(stack, 1, Len(stack) - 1)

\* an Undo has removed a snapshot and the board is another one than the board
\* Undo left; a pick is refused in this state with a selection active.
C37_Witness ==
    /\ pops >= 1
    /\ ahead = 1
    /\ Len(stack) >= 2
    /\ board # stack[Len(stack) - 1]
    /\ selected # NO_CARD
    /\ \E pick \in Cards : ~Interact(L, pick).ret

\* C38: the guard of AutoMoveCard is count() = len(stack) + 2*undos and not
\* the board.  With one snapshot left and an undo counted, the board is the
\* initial deal of the seed, count() is 3 or more, and AutoMoveCard returns
\* true exactly when a card of the deal may go up; it then promotes a card
\* from its place in the initial deal.
C38_GuardCountsUndos ==
    (Len(stack) = 1 /\ undos >= 1 /\ gameSeed \in Seeds) =>
        LET a == AutoMoveCard(L)
            fresh == freshOf[gameSeed].st
        IN  /\ board = fresh.board
            /\ count(L) = 1 + 2 * undos
            /\ ~AutoMoveCard(fresh).ret
            /\ a.ret <=> mayGoUp # {}
            /\ a.ret => \E c \in Cards :
                            /\ fresh.board[c] = board[c]
                            /\ isCascade(board[c])
                            /\ a.st.board[c] = deck[c].Suit + 4
                            /\ Len(a.st.stack) = 2

\* one move and one Undo after NewGame: the board is the initial deal and
\* AutoMoveCard promotes a card.
C38_Witness ==
    /\ Len(stack) = 1
    /\ undos = 1
    /\ pops = 1
    /\ gameSeed \in Seeds
    /\ board = freshOf[gameSeed].st.board
    /\ AutoMoveCard(L).ret

\* C39: chained promotion terminates.  Calling AutoMoveCard again while it
\* returns true reaches a call that returns false after at most 52
\* promotions, each of which puts one more card on the foundations; the
\* number of promotions is at most the number of cards not yet there.
C39_ChainTerminates ==
    LET r == outroChain([st |-> L, n |-> 0, up |-> TRUE])
    IN  /\ r.n <= 52
        /\ ~AutoMoveCard(r.st).ret
        /\ r.up
        /\ r.n <= 52 - Cardinality(foundationCards(board))
        /\ Cardinality(foundationCards(r.st.board))
              = Cardinality(foundationCards(board)) + r.n

\* after a move, a chain of ten or more promotions that ends with the game
\* won.
C39_Witness ==
    LET r == outroChain([st |-> L, n |-> 0, up |-> TRUE])
    IN  /\ ahead = 1
        /\ r.n >= 10
        /\ IsGameWon(r.st)
        /\ ~AutoMoveCard(r.st).ret

\* C40: a won position is terminal for play.  When IsGameWon() is true the
\* four kings are on the foundation slots and the 48 other cards are hidden
\* on the foundations, no card is selected and none can be selected, every
\* Interact call and AutoMoveCard return false and leave the board and the
\* selection as they are; Undo changes the board and NewGame deals anew.
C40_WonIsTerminal ==
    IsGameWon(L) =>
        /\ {c \in Cards : isFoundation(board[c])} = {KC, KD, KH, KS}
        /\ Cardinality({c \in Cards : board[c] \in (FC + HIDDEN_CARD)..(FS + HIDDEN_CARD)}) = 48
        /\ selected = NO_CARD
        /\ \A pick \in Picks :
              LET r == Interact(L, pick)
              IN  /\ ~canSelectCard(L, pick)
                  /\ ~r.ret
                  /\ r.st.board = board
                  /\ r.st.stack = stack
                  /\ r.st.selected = NO_CARD
        /\ LET a == AutoMoveCard(L)
           IN  ~a.ret /\ a.st.board = board /\ a.st.stack = stack
        /\ clearSelected(L).board = board
        /\ Undo(L).board # board
        /\ ~IsGameWon(Undo(L))
        /\ \A seed \in Seeds : NewGame(L, seed).st.board # board

\* the game has just been won by a move.
C40_Witness ==
    /\ IsGameWon(L)
    /\ ahead = 1
    /\ ~IsGameWon(setBoard(L, PreviousBoard(L)))

====
